---- MODULE Spec2Model ----
(***************************************************************************)
(* Client-side authentication / session lifecycle of Ramp Track:           *)
(* AuthProvider (hydration, login, setAuth, logout, refreshSession), the   *)
(* session validation gate (ensureUserContext / handleAuthError) and the   *)
(* hash router of App.                                                     *)
(*                                                                         *)
(* Strings.  A JavaScript string is a sequence of symbols; <<>> is the     *)
(* empty string and " " is the white-space symbol.  The words of the       *)
(* roster are kept as one symbol each: the code only trims, case-folds,    *)
(* compares, concatenates and tests them for emptiness.  null and          *)
(* undefined are two reserved one-symbol values, so that every value a     *)
(* string-typed field can hold is a sequence.                              *)
(***************************************************************************)
EXTENDS Integers, Sequences, FiniteSets, TLC

VARIABLES
    storage,             \* localStorage: key -> item
    auth,                \* AuthProvider state: AuthState | null
    isAuthReady,         \* AuthProvider state
    hydrationCompleted,  \* AuthProvider state
    isRefreshing,        \* AuthProvider state
    loginError,          \* AuthProvider state: string | null
    rendered,            \* state values as of the last committed render (what closures and effect dependencies see)
    authEffectDue,       \* the [auth] dependency of App's effect changed since the last commit
    hash,                \* window.location.hash without the leading '#'
    currentView,         \* App state
    hashChangePending,   \* a hashchange event is queued
    screen,              \* what the last committed render of App shows
    refreshTasks,        \* rebuilds of refreshSession waiting for their 800 ms timer
    lastOp,              \* history: the operation that produced this state
    readBack,            \* history: the session last persisted (writer) and how the last read of it came back
    apiLogin,            \* whether a /api/login request of this page has not settled yet
    backend,             \* the state-mutating calls the backend actor has received, in order
    overlay,             \* App's overlay state, the state and timers of ReconnectingOverlay, in seconds
    ledger               \* the equipment registry, the event history, the audit log and the check-out and check-in handlers that are suspended

vars == << storage, auth, isAuthReady, hydrationCompleted, isRefreshing, loginError,
           rendered, authEffectDue, hash, currentView, hashChangePending, screen,
           refreshTasks, lastOp, readBack, apiLogin, backend, overlay, ledger >>

\* what the handlers of AuthProvider and of the router never touch
sideVars == << apiLogin, backend, overlay, ledger >>

authVars == << storage, auth, isAuthReady, hydrationCompleted, isRefreshing, loginError >>

-----------------------------------------------------------------------------
(* JavaScript values *)

null == << "<null>" >>

undefined == << "<undefined>" >>

W(word) == << word >>

Truthy(v) == v # null /\ v # undefined /\ v # << >>

\* a || b
Or(a, b) == IF Truthy(a) THEN a ELSE b

NoAuth == [none |-> TRUE]

-----------------------------------------------------------------------------
(* Bounds *)

MaxRefresh == 2

MaxBackendCalls == 2

\* the clocks of the overlay (history) stop counting here, in seconds
SignalClockMax == 11

VisibleClockMax == 4

-----------------------------------------------------------------------------
(* userRoster *)

USER_ROSTER ==
    << [badgeId |-> W("DEMO001"), email |-> W("operator@demo.com"), password |-> W("test123"),
        role |-> W("agent"), displayName |-> W("Demo Operator")],
       [badgeId |-> W("970251"), email |-> W("970251"), password |-> W("test123"),
        role |-> W("manager"), displayName |-> W("Jayson James")],
       [badgeId |-> W("97025101"), email |-> undefined, password |-> undefined,
        role |-> W("operator"), displayName |-> W("Operator 11")] >>

NoUser == [none |-> TRUE]

IsSpace(c) == c = " "

RECURSIVE TrimStart(_)
TrimStart(s) == IF s # << >> /\ IsSpace(Head(s)) THEN TrimStart(Tail(s)) ELSE s

RECURSIVE TrimEnd(_)
TrimEnd(s) == IF s # << >> /\ IsSpace(s[Len(s)]) THEN TrimEnd(SubSeq(s, 1, Len(s) - 1)) ELSE s

Trim(s) == TrimEnd(TrimStart(s))

\* String.prototype.toLowerCase on the symbols of the model
LowerSym(c) ==
    CASE c = "OPERATOR@DEMO.COM" -> "operator@demo.com"
      [] c = "Demo001"           -> "demo001"
      [] c = "DEMO001"           -> "demo001"
      [] OTHER                   -> c

toLowerCase(s) == [i \in 1..Len(s) |-> LowerSym(s[i])]

\* String(input || '').trim()
normalizeString(input) == Trim(Or(input, << >>))

\* Array.prototype.find(...) || null: the first entry that matches
find(matching) ==
    IF matching = {} THEN NoUser
    ELSE USER_ROSTER[CHOOSE i \in matching : \A j \in matching : i <= j]

\* mutant: a badge lookup that folds the letter case
lookupUserByBadge_FoldsCase(badgeId) ==
    LET normalizedInput == toLowerCase(normalizeString(badgeId))
    IN  find({i \in 1..Len(USER_ROSTER) :
                toLowerCase(normalizeString(USER_ROSTER[i].badgeId)) = normalizedInput})

lookupUserByBadge(badgeId) ==
    LET normalizedInput == normalizeString(badgeId)
    IN  find({i \in 1..Len(USER_ROSTER) :
                normalizeString(USER_ROSTER[i].badgeId) = normalizedInput})

lookupUserByEmail(email) ==
    LET normalizedInput == toLowerCase(normalizeString(email))
    IN  find({i \in 1..Len(USER_ROSTER) :
                \/ toLowerCase(normalizeString(USER_ROSTER[i].email)) = normalizedInput
                \/ toLowerCase(normalizeString(USER_ROSTER[i].badgeId)) = normalizedInput})

validateCredentials(email, password) ==
    LET user == lookupUserByEmail(email)
    IN  IF user = NoUser \/ ~Truthy(user.password) THEN NoUser
        ELSE IF user.password = password THEN user ELSE NoUser

validateBadgeScan(badgeId) == lookupUserByBadge(badgeId)

-----------------------------------------------------------------------------
(* localStorage and JSON *)

STORAGE_KEY == "ramptrack_v2_session"

LegacyKeys == {"ramptrack_auth_state", "currentUser", "ramptrack_last_verified"}

Keys == {STORAGE_KEY} \cup LegacyKeys

\* getItem returns null for a key that is not set
Absent == [kind |-> "absent"]

\* an item whose text is not the serialisation of an object
Text(t) == [kind |-> "text", text |-> t]

\* JSON.stringify: a property whose value is undefined is dropped (it reads
\* back as undefined), an undefined array element is written as null
JSONstringify(obj) ==
    [kind |-> "json",
     value |-> IF "roles" \in DOMAIN obj /\ obj.roles.isArray
               THEN [obj EXCEPT !.roles.items =
                        [i \in 1..Len(obj.roles.items) |->
                            IF obj.roles.items[i] = undefined THEN null ELSE obj.roles.items[i]]]
               ELSE obj]

NullObject == [jsnull |-> TRUE]

\* JSON.parse: the result, or a SyntaxError
JSONparse(item) ==
    IF item.kind = "json" THEN [ok |-> TRUE, value |-> item.value]
    ELSE IF item.kind = "text" /\ item.text = W("null") THEN [ok |-> TRUE, value |-> NullObject]
    ELSE [ok |-> FALSE]

\* !storedAuthJson
FalsyItem(item) == item = Absent \/ (item.kind = "text" /\ item.text = << >>)

Array(items) == [isArray |-> TRUE, items |-> items]

NotArray == [isArray |-> FALSE]

\* roles[0]
First(roles) == IF Len(roles.items) > 0 THEN roles.items[1] ELSE undefined

-----------------------------------------------------------------------------
(* AuthProvider: construction of sessions and of the stored record *)

AuthState(user, role, badgeId, name) ==
    [user |-> user, role |-> role, badgeId |-> badgeId, name |-> name]

\* hydration effect: authData built from the parsed record
hydrationAuthData(storedData) ==
    AuthState(storedData.username,
              IF storedData.roles.isArray THEN First(storedData.roles) ELSE W("guest"),
              Or(storedData.badgeId, storedData.username),
              Or(storedData.displayName, Or(storedData.username, W("Signed out"))))

\* refreshSession: authData built from the parsed record
refreshAuthData(storedData) ==
    AuthState(storedData.username,
              IF storedData.roles.isArray THEN First(storedData.roles) ELSE W("guest"),
              Or(storedData.badgeId, storedData.username),
              Or(storedData.displayName, Or(storedData.username, W("Signed out"))))

\* login, step 2: authData built from the roster entry
loginAuthData(user, badge) ==
    AuthState(Or(user.email, user.badgeId),
              user.role,
              Or(badge, user.badgeId),
              Or(user.displayName, Or(user.badgeId, Or(user.email, W("Signed out")))))

\* login step 4 and setAuth: the record written under STORAGE_KEY
storageData(authData) ==
    [username    |-> Or(authData.badgeId, authData.user),
     roles       |-> Array(<< authData.role >>),
     displayName |-> authData.name,
     badgeId     |-> authData.badgeId]

\* setAuth: validatedAuth
validatedAuth(authData) ==
    [authData EXCEPT !.name = Or(authData.name, Or(authData.badgeId, Or(authData.user, W("Signed out"))))]

\* storedData && storedData.username
ValidStored(parsed) ==
    parsed.ok /\ parsed.value # NullObject /\ Truthy(parsed.value.username)

-----------------------------------------------------------------------------
(* App: the hash router *)

validViews ==
    {"roleSelection", "signOn", "agentMenu", "adminMenu",
     "takeEquipment", "returnEquipment", "reportIssue", "manageEquipment"}

\* mutant: no default for an unknown fragment
getViewFromHash_NoDefault(h) == h

getViewFromHash(h) == IF h \in validViews THEN h ELSE "roleSelection"

\* mutant: the signed-in view is rendered without a session
AppRender_NoGuard(a, view) == view

\* the render of App: LoginScreen without a session, else the current view
AppRender(a, view) == IF a = NoAuth THEN "login" ELSE view

\* mutant: the effect navigates to roleSelection whatever the fragment
authEffectHash_Always(a, h) == IF a # NoAuth THEN "roleSelection" ELSE h

\* the effect of App that depends on [auth]: the fragment it leaves
authEffectHash(a, h) ==
    IF a # NoAuth /\ (h = "" \/ h \notin validViews) THEN "roleSelection" ELSE h

-----------------------------------------------------------------------------
(* Inputs *)

\* fragments the user or the application navigates to
Fragments == {"", "bogus", "agentMenu"}

Credentials ==
    { [username |-> << >>, password |-> << >>, badge |-> W("970251")],
      [username |-> << >>, password |-> << >>, badge |-> W("000000")],
      [username |-> W("operator@demo.com"), password |-> W("test123"), badge |-> undefined],
      [username |-> W("operator@demo.com"), password |-> W("wrong"), badge |-> undefined] }

SetAuthInputs ==
    { AuthState(W("u1"), W("agent"), null, << >>),
      AuthState(W("u1"), << >>, null, W("User One")) }

\* what the canonical key may hold when the page is opened
InitialSessionItems ==
    { Absent,
      Text(W("undefined")),
      Text(<< >>),
      Text(W("{bad")),
      Text(W("null")),
      JSONstringify(storageData(AuthState(W("970251"), W("manager"), W("970251"), W("Jayson James")))),
      JSONstringify([username |-> undefined, roles |-> NotArray, displayName |-> W("x"), badgeId |-> undefined]),
      JSONstringify([username |-> W("u1"), roles |-> NotArray, displayName |-> undefined, badgeId |-> undefined]) }

\* what earlier versions of the application may have left under the legacy
\* keys: only the older of the two session records
LegacyCurrentUser ==
    [k \in LegacyKeys |->
        IF k = "currentUser"
        THEN JSONstringify([username |-> W("970251"), roles |-> Array(<< W("manager") >>),
                            displayName |-> W("Jayson James")])
        ELSE Absent]

\* nothing, or both session records and the time stamp
InitialLegacy ==
    { [k \in LegacyKeys |-> Absent],
      [k \in LegacyKeys |->
          CASE k = "ramptrack_auth_state" ->
                   JSONstringify([user |-> W("970251"), role |-> W("manager"),
                                  badgeId |-> W("970251"), name |-> W("Jayson James")])
            [] k = "currentUser" -> LegacyCurrentUser[k]
            [] OTHER -> Text(W("1733616000000"))] }

OperatorIds == {undefined, W("970251"), W("someone-else")}

-----------------------------------------------------------------------------
(* Initial state: the page has been loaded and rendered once, no effect has run *)

Op(name, outcome) == [op |-> name, outcome |-> outcome]

\* a timer that is not armed
Off == -1

\* App and ReconnectingOverlay as first rendered, before their effects have run
OverlayUnmounted ==
    [mounted              |-> FALSE,
     apiClientRefreshing  |-> FALSE,
     overlayDismissed     |-> FALSE,
     deps                 |-> [isRefreshing |-> FALSE, apiClientRefreshing |-> FALSE],
     autoDismissTimer     |-> Off,
     isVisible            |-> FALSE,
     shouldRender         |-> FALSE,
     canDismiss           |-> FALSE,
     dismissTimer         |-> Off,
     fadeTimer            |-> FALSE,
     signalFor            |-> 0,
     visibleFor           |-> 0,
     hiddenSince          |-> FALSE,
     dismissedOnce        |-> FALSE,
     reentered            |-> FALSE]

\* the equipment known to the registry
EquipmentIds == {W("TV0637")}

\* the registry as initializeTugs leaves it, an empty event history and audit
\* log, and no handler suspended
LedgerFresh ==
    [registry     |-> [id \in EquipmentIds |->
                          [status |-> "AVAILABLE", lastOperator |-> undefined, history |-> << "CREATED" >>]],
     eventHistory |-> << >>,
     auditLog     |-> << >>,
     flows        |-> << >>]

FreshPage(store, h) ==
    /\ storage = store
    /\ auth = NoAuth
    /\ isAuthReady = FALSE
    /\ hydrationCompleted = FALSE
    /\ isRefreshing = FALSE
    /\ loginError = null
    /\ rendered = [isRefreshing |-> FALSE, hydrationCompleted |-> FALSE]
    /\ authEffectDue = FALSE
    /\ hash = h
    /\ currentView = getViewFromHash(h)
    /\ hashChangePending = FALSE
    /\ screen = AppRender(NoAuth, getViewFromHash(h))
    /\ refreshTasks = << >>
    /\ apiLogin = "none"
    /\ overlay = OverlayUnmounted
    /\ lastOp = Op("load", "ok")

Init ==
    /\ \E item \in InitialSessionItems, legacy \in InitialLegacy, h \in Fragments :
          FreshPage([k \in Keys |-> IF k = STORAGE_KEY THEN item ELSE legacy[k]], h)
    /\ readBack = [writer |-> NoAuth, read |-> "none"]
    /\ backend = << >>
    /\ ledger = LedgerFresh

-----------------------------------------------------------------------------
(* AuthProvider *)

Mounted == hydrationCompleted

\* state has been set that React has not committed yet
NeedsRender ==
    \/ rendered # [isRefreshing |-> isRefreshing, hydrationCompleted |-> hydrationCompleted]
    \/ authEffectDue
    \/ screen # AppRender(auth, currentView)

\* React commits the updates of a tick before the browser runs the next task
\* (timer, hashchange event, user input); only calls made in one tick see
\* the closures of the render before
BrowserTask == Mounted /\ ~NeedsRender

\* history: a session built from the stored record is compared with the
\* session whose record login or setAuth had written there
ReadBackOf(session, writer) ==
    IF writer = NoAuth THEN "none" ELSE IF session = writer THEN "same" ELSE "differs"

\* mutant: only a missing item is taken for "no session"
hydrationSanitised_NullOnly(storedAuthJson) == storedAuthJson = Absent

\* hydration effect: the check made before parsing
hydrationSanitised(storedAuthJson) ==
    storedAuthJson = Absent \/ storedAuthJson = Text(W("undefined")) \/ storedAuthJson = Text(<< >>)

\* the hydration effect (runs once, after the first render); getItemThrows:
\* localStorage.getItem raises, which the outer catch logs
Hydrate(getItemThrows) ==
    /\ ~hydrationCompleted
    /\ LET storedAuthJson == storage[STORAGE_KEY]
           parsed == JSONparse(storedAuthJson)
       IN  IF getItemThrows
           THEN /\ UNCHANGED << storage, auth, authEffectDue >>
                /\ readBack' = [readBack EXCEPT !.read = "none"]
                /\ lastOp' = Op("hydrate", "threw")
           ELSE IF hydrationSanitised(storedAuthJson)
           THEN /\ UNCHANGED << storage, auth, authEffectDue >>
                /\ readBack' = [readBack EXCEPT !.read = "none"]
                /\ lastOp' = Op("hydrate", "skipped")
           ELSE IF ValidStored(parsed)
           THEN /\ auth' = hydrationAuthData(parsed.value)
                /\ authEffectDue' = TRUE
                /\ readBack' = [readBack EXCEPT !.read = ReadBackOf(hydrationAuthData(parsed.value), readBack.writer)]
                /\ lastOp' = Op("hydrate", "session")
                /\ UNCHANGED storage
           ELSE /\ storage' = [storage EXCEPT ![STORAGE_KEY] = Absent]
                /\ readBack' = [writer |-> NoAuth, read |-> "none"]
                /\ lastOp' = Op("hydrate", IF parsed.ok THEN "invalid" ELSE "corrupt")
                /\ UNCHANGED << auth, authEffectDue >>
    /\ hydrationCompleted' = TRUE
    /\ UNCHANGED << isAuthReady, isRefreshing, loginError, rendered, hash, currentView,
                    hashChangePending, screen, refreshTasks >>
    /\ UNCHANGED sideVars

\* mutant: the stored record is left behind
clearAuthState_KeepsStore == [auth |-> NoAuth, storage |-> storage]

\* clearAuthState: the session and the stored record it leaves
clearAuthState == [auth |-> NoAuth, storage |-> [storage EXCEPT ![STORAGE_KEY] = Absent]]

\* mutant: the record is written but the session is not set
LoginOk_StoreOnly(credentials, user) ==
    LET authData == loginAuthData(user, credentials.badge)
    IN  /\ storage' = [storage EXCEPT ![STORAGE_KEY] = JSONstringify(storageData(authData))]
        /\ loginError' = null
        /\ authEffectDue' = TRUE
        /\ readBack' = [readBack EXCEPT !.writer = authData]
        /\ apiLogin' = "pending"
        /\ lastOp' = [op |-> "login", outcome |-> "resolved", credentials |-> credentials]
        /\ UNCHANGED auth

\* login, steps 3 to 5: the session is set and persisted, the /api/login
\* request is issued and not awaited
LoginOk(credentials, user) ==
    LET authData == loginAuthData(user, credentials.badge)
    IN  /\ auth' = authData
        /\ storage' = [storage EXCEPT ![STORAGE_KEY] = JSONstringify(storageData(authData))]
        /\ loginError' = null
        /\ authEffectDue' = TRUE
        /\ readBack' = [readBack EXCEPT !.writer = authData]
        /\ apiLogin' = "pending"
        /\ lastOp' = [op |-> "login", outcome |-> "resolved", credentials |-> credentials]

\* mutant: a failed login also ends the session
LoginFail_DropsSession(credentials, errorMsg) ==
    /\ loginError' = errorMsg
    /\ auth' = NoAuth
    /\ storage' = [storage EXCEPT ![STORAGE_KEY] = Absent]
    /\ authEffectDue' = TRUE
    /\ lastOp' = [op |-> "login", outcome |-> "rejected", credentials |-> credentials]
    /\ UNCHANGED << readBack, apiLogin >>

\* login, validation failure: setLoginError(errorMsg) before the throw; the catch
\* block sets the same message again if the loginError it captured is empty
\* (either way the message recorded is errorMsg), marks auth ready and rethrows
LoginFail(credentials, errorMsg) ==
    /\ loginError' = errorMsg
    /\ lastOp' = [op |-> "login", outcome |-> "rejected", credentials |-> credentials]
    /\ UNCHANGED << auth, storage, authEffectDue, readBack, apiLogin >>

login(credentials) ==
    /\ Mounted
    /\ LET badge == credentials.badge
           user == IF Truthy(badge) THEN validateBadgeScan(badge)
                   ELSE validateCredentials(credentials.username, credentials.password)
           errorMsg == IF Truthy(badge) THEN W("Badge ") \o badge \o W(" not found in system")
                       ELSE W("Invalid username or password")
       IN  IF user = NoUser THEN LoginFail(credentials, errorMsg) ELSE LoginOk(credentials, user)
    /\ isAuthReady' = TRUE
    /\ UNCHANGED << hydrationCompleted, isRefreshing, rendered, hash, currentView,
                    hashChangePending, screen, refreshTasks, backend, overlay, ledger >>

\* how a /api/login request can end: response.ok, a response that is not ok,
\* fetch rejecting, the 10 s timer aborting it
ApiLoginOutcomes == {"ok", "not ok", "network failure", "aborted"}

\* mutant: a request that fails ends the session
apiLoginSettles_Reverts(outcome) ==
    /\ BrowserTask
    /\ apiLogin = "pending"
    /\ apiLogin' \in {"none", "pending"}
    /\ auth' = IF outcome = "ok" THEN auth ELSE NoAuth
    /\ authEffectDue' = TRUE
    /\ lastOp' = Op("apiLogin", outcome)
    /\ UNCHANGED << storage, isAuthReady, hydrationCompleted, isRefreshing, loginError, rendered,
                    hash, currentView, hashChangePending, screen, refreshTasks,
                    readBack, backend, overlay, ledger >>

\* a /api/login request settles: the then and catch callbacks clear the abort
\* timer and log; apiLogin stays pending when other requests are in flight
apiLoginSettles(outcome) ==
    /\ BrowserTask
    /\ apiLogin = "pending"
    /\ apiLogin' \in {"none", "pending"}
    /\ lastOp' = Op("apiLogin", outcome)
    /\ UNCHANGED << storage, auth, isAuthReady, hydrationCompleted, isRefreshing, loginError, rendered,
                    authEffectDue, hash, currentView, hashChangePending, screen, refreshTasks,
                    readBack, backend, overlay, ledger >>

setAuth(authData) ==
    /\ Mounted
    /\ IF ~Truthy(authData.user) \/ ~Truthy(authData.role)
       THEN /\ lastOp' = Op("setAuth", "threw")
            /\ UNCHANGED << auth, storage, isAuthReady, authEffectDue, readBack >>
       ELSE /\ auth' = validatedAuth(authData)
            /\ storage' = [storage EXCEPT ![STORAGE_KEY] = JSONstringify(storageData(validatedAuth(authData)))]
            /\ isAuthReady' = TRUE
            /\ authEffectDue' = TRUE
            /\ readBack' = [readBack EXCEPT !.writer = validatedAuth(authData)]
            /\ lastOp' = Op("setAuth", "ok")
    /\ UNCHANGED << hydrationCompleted, isRefreshing, loginError, rendered, hash, currentView,
                    hashChangePending, screen, refreshTasks >>
    /\ UNCHANGED sideVars

logout ==
    /\ Mounted
    /\ auth' = clearAuthState.auth
    /\ storage' = clearAuthState.storage
    /\ loginError' = null
    /\ authEffectDue' = (authEffectDue \/ auth # NoAuth)
    /\ readBack' = [readBack EXCEPT !.writer = NoAuth]
    /\ lastOp' = Op("logout", IF auth # NoAuth THEN "signed out" ELSE "no session")
    /\ UNCHANGED << isAuthReady, hydrationCompleted, isRefreshing, rendered, hash, currentView,
                    hashChangePending, screen, refreshTasks >>
    /\ UNCHANGED sideVars

clearAuth ==
    /\ Mounted
    /\ auth' = clearAuthState.auth
    /\ storage' = clearAuthState.storage
    /\ loginError' = null
    /\ authEffectDue' = (authEffectDue \/ auth # NoAuth)
    /\ readBack' = [readBack EXCEPT !.writer = NoAuth]
    /\ lastOp' = Op("clearAuth", "ok")
    /\ UNCHANGED << isAuthReady, hydrationCompleted, isRefreshing, rendered, hash, currentView,
                    hashChangePending, screen, refreshTasks >>
    /\ UNCHANGED sideVars

\* a clearLoginError that clears the session as clearAuth does
clearLoginError_ClearsSession ==
    /\ Mounted
    /\ auth' = clearAuthState.auth
    /\ storage' = clearAuthState.storage
    /\ loginError' = null
    /\ authEffectDue' = (authEffectDue \/ auth # NoAuth)
    /\ readBack' = [readBack EXCEPT !.writer = NoAuth]
    /\ lastOp' = Op("clearLoginError", "ok")
    /\ UNCHANGED << isAuthReady, hydrationCompleted, isRefreshing, rendered, hash, currentView,
                    hashChangePending, screen, refreshTasks >>
    /\ UNCHANGED sideVars

clearLoginError ==
    /\ Mounted
    /\ loginError' = null
    /\ lastOp' = Op("clearLoginError", "ok")
    /\ UNCHANGED << storage, auth, isAuthReady, hydrationCompleted, isRefreshing, rendered,
                    authEffectDue, hash, currentView, hashChangePending, screen, refreshTasks, readBack >>
    /\ UNCHANGED sideVars

\* refreshSession: the busy check reads the isRefreshing captured by the last render
refreshBusy == rendered.isRefreshing

\* refreshSession up to its first suspension: busy check, read of the store,
\* construction of authData; a call that finds no usable record resolves
\* false in the same tick, its finally block setting isRefreshing back
refreshSession ==
    /\ Mounted
    /\ Len(refreshTasks) < MaxRefresh
    /\ LET storedAuthJson == storage[STORAGE_KEY]
           parsed == JSONparse(storedAuthJson)
       IN  IF refreshBusy
           THEN /\ lastOp' = Op("refreshSession", "busy")
                /\ UNCHANGED << isRefreshing, refreshTasks, readBack >>
           ELSE IF FalsyItem(storedAuthJson) \/ storedAuthJson = Text(W("undefined"))
           THEN /\ isRefreshing' = FALSE
                /\ lastOp' = Op("refreshSession", "false")
                /\ UNCHANGED << refreshTasks, readBack >>
           ELSE IF ~ValidStored(parsed)
           THEN /\ isRefreshing' = FALSE
                /\ lastOp' = Op("refreshSession", "false")
                /\ UNCHANGED << refreshTasks, readBack >>
           ELSE /\ isRefreshing' = TRUE
                /\ refreshTasks' = Append(refreshTasks, refreshAuthData(parsed.value))
                /\ readBack' = [readBack EXCEPT !.read = ReadBackOf(refreshAuthData(parsed.value), readBack.writer)]
                /\ lastOp' = Op("refreshSession", "pending")
    /\ UNCHANGED << storage, auth, isAuthReady, hydrationCompleted, loginError, rendered,
                    authEffectDue, hash, currentView, hashChangePending, screen >>
    /\ UNCHANGED sideVars

\* the wait of the rebuild and the timeout it is raced against, in ms
RebuildDelay == 800

RefreshTimeout == 5000

\* mutant: the timeout settles the race first
rebuildWinsRace_TimeoutFirst == FALSE

\* Promise.race([refreshPromise, timeoutPromise]): both timers are armed in the
\* same task, the timeout first, and the timers of a page fire in the order
\* in which they are due
rebuildWinsRace == RebuildDelay < RefreshTimeout

\* mutant: a rebuild whose call has no finally block
refreshComplete_NoFinally ==
    /\ BrowserTask
    /\ refreshTasks # << >>
    /\ auth' = Head(refreshTasks)
    /\ authEffectDue' = TRUE
    /\ refreshTasks' = Tail(refreshTasks)
    /\ lastOp' = Op("refreshComplete", IF rebuildWinsRace THEN "true" ELSE "false")
    /\ UNCHANGED << storage, isAuthReady, hydrationCompleted, isRefreshing, loginError, rendered, hash,
                    currentView, hashChangePending, screen, readBack >>
    /\ UNCHANGED sideVars

\* the 800 ms timer of the oldest rebuild fires: the session is replaced, the
\* race resolves with the result of the rebuild unless the timeout has
\* settled it, and the finally block runs; the 5 s timer fires on a settled
\* race, where its resolve(false) does nothing
refreshComplete ==
    /\ BrowserTask
    /\ refreshTasks # << >>
    /\ auth' = Head(refreshTasks)
    /\ authEffectDue' = TRUE
    /\ isRefreshing' = FALSE
    /\ refreshTasks' = Tail(refreshTasks)
    /\ lastOp' = Op("refreshComplete", IF rebuildWinsRace THEN "true" ELSE "false")
    /\ UNCHANGED << storage, isAuthReady, hydrationCompleted, loginError, rendered, hash,
                    currentView, hashChangePending, screen, readBack >>
    /\ UNCHANGED sideVars

-----------------------------------------------------------------------------
(* ensureUserContext.ts *)

Field(obj, f) == IF obj # NullObject /\ f \in DOMAIN obj THEN obj[f] ELSE undefined

IsArrayField(obj, f) == obj # NullObject /\ f \in DOMAIN obj /\ obj[f].isArray

GuestContext == [employeeId |-> W("GUEST"), displayName |-> W("Guest User"), role |-> W("guest")]

getLocalUserContext(store) ==
    LET canonical == store["ramptrack_auth_state"]
        source == IF FalsyItem(canonical) THEN "currentUser" ELSE "ramptrack_auth_state"
        storedAuthJson == store[source]
        parsed == JSONparse(storedAuthJson)
        rawData == parsed.value
    IN  IF FalsyItem(storedAuthJson) \/ ~parsed.ok THEN GuestContext
        ELSE IF source = "currentUser"
        THEN IF Truthy(Field(rawData, "username")) /\ IsArrayField(rawData, "roles")
             THEN [employeeId  |-> rawData.username,
                   displayName |-> Or(Field(rawData, "displayName"), Or(rawData.username, W("Signed out"))),
                   role        |-> Or(First(rawData.roles), W("guest"))]
             ELSE GuestContext
        ELSE IF Truthy(Field(rawData, "user")) /\ Truthy(Field(rawData, "role"))
             THEN [employeeId  |-> Or(Field(rawData, "badgeId"), rawData.user),
                   displayName |-> Or(Field(rawData, "name"), Or(Field(rawData, "badgeId"), Or(rawData.user, W("Signed out")))),
                   role        |-> rawData.role]
             ELSE GuestContext

ensureUserContext(store, operatorId) ==
    LET localContext == getLocalUserContext(store)
    IN  IF localContext.employeeId = W("GUEST") THEN FALSE ELSE TRUE

\* nothing is thrown
NoError == [none |-> TRUE]

\* a thrown value: an Error with its message, or a value that is not an Error
\* (message undefined), and what String(error) gives for it
Thrown(message, asString) == [message |-> message, asString |-> asString]

\* values thrown inside the try block of ensureUserContext; none of the calls
\* made there throws by itself (getLocalUserContext catches its own errors),
\* so a throw comes from the environment, e.g. a patched console or storage
ThrownErrors ==
    { Thrown(<< "HTTP ", "401", " Unauthorized" >>, << "Error: ", "HTTP ", "401", " Unauthorized" >>),
      Thrown(<< "403" >>, << "Error: ", "403" >>),
      Thrown(<< "Invalid delegation", " expiry" >>, << "Error: ", "Invalid delegation", " expiry" >>),
      Thrown(undefined, << "Session expired" >>),
      Thrown(<< "session expired" >>, << "Error: ", "session expired" >>),
      Thrown(<< "network timeout" >>, << "Error: ", "network timeout" >>),
      Thrown(<< "IC0508", ": canister stopped" >>, << "Error: ", "IC0508", ": canister stopped" >>),
      Thrown(<< >>, << "Error" >>) }

\* String.prototype.includes, for the substrings that are symbols of the model
includes(str, searchString) == \E i \in 1..Len(str) : str[i] = searchString

\* error?.message || String(error)
errorMessageOf(error) == Or(error.message, error.asString)

isAuthFailure(errorMessage) ==
    \/ includes(errorMessage, "401")
    \/ includes(errorMessage, "403")
    \/ includes(errorMessage, "Invalid delegation")
    \/ includes(errorMessage, "Session expired")

\* mutant: an error that is no authentication failure is thrown on
ensureUserContextCatch_Rethrows(error) ==
    IF isAuthFailure(errorMessageOf(error)) THEN "false" ELSE "threw"

\* the catch block of ensureUserContext: what the call resolves to
ensureUserContextCatch(error) ==
    IF isAuthFailure(errorMessageOf(error)) THEN "false" ELSE "true"

\* what a call of ensureUserContext resolves to when `thrown` is raised in
\* its try block (NoError: nothing is)
ensureUserContextResult(store, operatorId, thrown) ==
    IF thrown # NoError THEN ensureUserContextCatch(thrown)
    ELSE IF ensureUserContext(store, operatorId) THEN "true" ELSE "false"

\* mutant: a gate that removes the stored records when an error is caught
EnsureUserContext_WipesOnError(operatorId, thrown) ==
    /\ Mounted
    /\ lastOp' = [op |-> "ensureUserContext",
                  outcome |-> ensureUserContextResult(storage, operatorId, thrown),
                  thrown |-> thrown]
    /\ storage' = IF thrown = NoError THEN storage ELSE [k \in Keys |-> Absent]
    /\ UNCHANGED << auth, isAuthReady, hydrationCompleted, isRefreshing, loginError,
                    rendered, authEffectDue, hash, currentView, hashChangePending, screen,
                    refreshTasks, readBack >>
    /\ UNCHANGED sideVars

\* a caller runs the gate
EnsureUserContext(operatorId, thrown) ==
    /\ Mounted
    /\ lastOp' = [op |-> "ensureUserContext",
                  outcome |-> ensureUserContextResult(storage, operatorId, thrown),
                  thrown |-> thrown]
    /\ UNCHANGED << storage, auth, isAuthReady, hydrationCompleted, isRefreshing, loginError,
                    rendered, authEffectDue, hash, currentView, hashChangePending, screen,
                    refreshTasks, readBack >>
    /\ UNCHANGED sideVars

\* the keys handleAuthError removes
handleAuthErrorKeys == {"ramptrack_auth_state", "currentUser", "ramptrack_last_verified"}

handleAuthError ==
    /\ Mounted
    /\ storage' = [k \in Keys |-> IF k \in handleAuthErrorKeys THEN Absent ELSE storage[k]]
    /\ readBack' = IF STORAGE_KEY \in handleAuthErrorKeys
                   THEN [readBack EXCEPT !.writer = NoAuth] ELSE readBack
    /\ lastOp' = Op("handleAuthError", "ok")
    /\ UNCHANGED << auth, isAuthReady, hydrationCompleted, isRefreshing, loginError, rendered,
                    authEffectDue, hash, currentView, hashChangePending, screen, refreshTasks >>
    /\ UNCHANGED sideVars

-----------------------------------------------------------------------------
(* useQueries: the mutations *)

\* the state-mutating methods of the backend actor
BackendCalls == {"updateEquipment", "createAssignment", "reportIssue", "updateIssue", "logActivity"}

\* the argument each mutationFn passes to ensureUserContext; operator is
\* assigned_operator, operator_id or user_id of the payload
gateArgument(call, operator) ==
    CASE call = "updateEquipment" -> Or(operator, undefined)
      [] call = "updateIssue"     -> undefined
      [] OTHER                    -> operator

\* mutant: the result of the gate is not looked at
mutationIssues_Unchecked(actor, isValid) == actor

\* whether mutationFn gets as far as the backend call
mutationIssues(actor, isValid) == actor /\ isValid

\* mutationFn of useUpdateEquipment, useCreateAssignment, useReportIssue,
\* useUpdateIssue and useLogActivity; actor: the actor is available; the
\* awaited gate has no suspension point of its own, so nothing runs between
\* its result and the backend call
mutationFn(call, operator, actor, thrown) ==
    /\ Mounted
    /\ Len(backend) < MaxBackendCalls
    /\ LET operatorId == gateArgument(call, operator)
           isValid == ensureUserContextResult(storage, operatorId, thrown)
           issued == mutationIssues(actor, isValid = "true")
       IN  /\ backend' = IF issued THEN Append(backend, call) ELSE backend
           /\ lastOp' = [op |-> "mutation", call |-> call, operatorId |-> operatorId,
                         thrown |-> thrown,
                         outcome |-> IF ~actor THEN "no actor"
                                     ELSE IF issued THEN "issued" ELSE "rejected"]
    /\ UNCHANGED << storage, auth, isAuthReady, hydrationCompleted, isRefreshing, loginError,
                    rendered, authEffectDue, hash, currentView, hashChangePending, screen,
                    refreshTasks, readBack, apiLogin, overlay, ledger >>

-----------------------------------------------------------------------------
(* React commit, App effects and the browser *)

\* mutant: the effect on [hydrationCompleted] is missing
Render_NoReadinessEffect ==
    /\ Mounted
    /\ NeedsRender
    /\ rendered' = [isRefreshing |-> isRefreshing, hydrationCompleted |-> hydrationCompleted]
    /\ screen' = AppRender(auth, currentView)
    /\ hash' = IF authEffectDue THEN authEffectHash(auth, hash) ELSE hash
    /\ hashChangePending' = (hashChangePending \/ hash' # hash)
    /\ authEffectDue' = FALSE
    /\ lastOp' = Op("render", IF hash' # hash THEN "navigated" ELSE "ok")
    /\ UNCHANGED << storage, auth, isAuthReady, hydrationCompleted, isRefreshing, loginError,
                    currentView, refreshTasks, readBack >>
    /\ UNCHANGED sideVars

\* React commits a render: closures capture the current state, the screen is
\* redrawn, and the effects whose dependencies changed run (the readiness
\* effect on [hydrationCompleted], the navigation effect of App on [auth])
Render ==
    /\ Mounted
    /\ NeedsRender
    /\ rendered' = [isRefreshing |-> isRefreshing, hydrationCompleted |-> hydrationCompleted]
    /\ isAuthReady' = (isAuthReady \/ (hydrationCompleted /\ ~rendered.hydrationCompleted))
    /\ screen' = AppRender(auth, currentView)
    /\ hash' = IF authEffectDue THEN authEffectHash(auth, hash) ELSE hash
    /\ hashChangePending' = (hashChangePending \/ hash' # hash)
    /\ authEffectDue' = FALSE
    /\ lastOp' = Op("render", IF hash' # hash THEN "navigated" ELSE "ok")
    /\ UNCHANGED << storage, auth, hydrationCompleted, isRefreshing, loginError, currentView,
                    refreshTasks, readBack >>
    /\ UNCHANGED sideVars

\* handleHashChange
HashChange ==
    /\ BrowserTask
    /\ hashChangePending
    /\ currentView' = getViewFromHash(hash)
    /\ hashChangePending' = FALSE
    /\ lastOp' = Op("hashchange", "ok")
    /\ UNCHANGED << storage, auth, isAuthReady, hydrationCompleted, isRefreshing, loginError,
                    rendered, authEffectDue, hash, screen, refreshTasks, readBack >>
    /\ UNCHANGED sideVars

\* the user edits the URL or goes back, or a screen calls navigateTo
SetHash(fragment) ==
    /\ BrowserTask
    /\ fragment # hash
    /\ hash' = fragment
    /\ hashChangePending' = TRUE
    /\ lastOp' = Op("navigate", "ok")
    /\ UNCHANGED << storage, auth, isAuthReady, hydrationCompleted, isRefreshing, loginError,
                    rendered, authEffectDue, currentView, screen, refreshTasks, readBack >>
    /\ UNCHANGED sideVars

\* the page is reloaded: the store and the URL survive, everything else starts over
Reload ==
    /\ BrowserTask
    /\ auth' = NoAuth
    /\ isAuthReady' = FALSE
    /\ hydrationCompleted' = FALSE
    /\ isRefreshing' = FALSE
    /\ loginError' = null
    /\ rendered' = [isRefreshing |-> FALSE, hydrationCompleted |-> FALSE]
    /\ authEffectDue' = FALSE
    /\ currentView' = getViewFromHash(hash)
    /\ hashChangePending' = FALSE
    /\ screen' = AppRender(NoAuth, getViewFromHash(hash))
    /\ refreshTasks' = << >>
    /\ apiLogin' = "none"
    /\ overlay' = OverlayUnmounted
    /\ ledger' = [ledger EXCEPT !.eventHistory = << >>, !.flows = << >>]
    /\ lastOp' = Op("load", "ok")
    /\ UNCHANGED << storage, hash, readBack, backend >>

-----------------------------------------------------------------------------

Next ==
    \/ Hydrate(FALSE)
    \/ \E credentials \in Credentials : login(credentials)
    \/ \E authData \in SetAuthInputs : setAuth(authData)
    \/ logout
    \/ clearAuth
    \/ clearLoginError
    \/ refreshSession
    \/ refreshComplete
    \/ \E operatorId \in OperatorIds : EnsureUserContext(operatorId, NoError)
    \/ handleAuthError
    \/ Render
    \/ HashChange
    \/ \E fragment \in Fragments : SetHash(fragment)
    \/ Reload

Spec == Init /\ [][Next]_vars

-----------------------------------------------------------------------------
(* Start-up and sign-in: the page is opened on any content of the canonical *)
(* key, hydrates (the read of the store may raise), and the user signs in.  *)
(* React runs the effects of the first render and commits every update, and *)
(* the browser delivers a queued hashchange event.                          *)

\* records only an earlier version or another program can have left
ForeignSessionItems ==
    { JSONstringify([username |-> W("u1"), roles |-> Array(<< W("agent") >>),
                     displayName |-> undefined, badgeId |-> W("B1")]),
      JSONstringify([username |-> W("u1"), roles |-> Array(<< W("agent") >>),
                     displayName |-> << >>, badgeId |-> undefined]) }

StartupInit ==
    /\ \E item \in InitialSessionItems \cup ForeignSessionItems, h \in Fragments :
          FreshPage([k \in Keys |-> IF k = STORAGE_KEY THEN item ELSE Absent], h)
    /\ readBack = [writer |-> NoAuth, read |-> "none"]
    /\ backend = << >>
    /\ ledger = LedgerFresh

StartupNext ==
    \/ \E getItemThrows \in BOOLEAN : Hydrate(getItemThrows)
    \/ \E credentials \in Credentials : login(credentials)
    \/ \E outcome \in ApiLoginOutcomes : apiLoginSettles(outcome)
    \/ Render
    \/ HashChange

StartupSpec ==
    /\ StartupInit
    /\ [][StartupNext]_vars
    /\ WF_vars(\E getItemThrows \in BOOLEAN : Hydrate(getItemThrows))
    /\ WF_vars(Render)
    /\ WF_vars(HashChange)

-----------------------------------------------------------------------------
(* App: the reconnecting overlay, and ReconnectingOverlay.  Time is counted *)
(* in seconds; a timer holds the seconds left until it fires (0: it is due) *)
(* and a timer that is due fires before more time passes.  The timers      *)
(* shorter than a second (the 300 ms of the fade-out, the 800 ms of a       *)
(* rebuild) are due as soon as they are armed.                              *)

\* setTimeout(..., 10000) of App's auto-dismiss effect
AutoDismissDelay == 10

\* setTimeout(..., 3000) of ReconnectingOverlay
CanDismissDelay == 3

\* isRefreshing || apiClientRefreshing
CombinedSignal == isRefreshing \/ overlay.apiClientRefreshing

showReconnectingOverlay == CombinedSignal /\ ~overlay.overlayDismissed

\* the dependencies of App's auto-dismiss effect
overlayDeps == [isRefreshing |-> isRefreshing, apiClientRefreshing |-> overlay.apiClientRefreshing]

\* overlay state has been set, or a signal has changed, and React has not
\* committed it yet (or the effects of the first render have not run)
OverlayNeedsRender ==
    \/ ~overlay.mounted
    \/ overlay.deps # overlayDeps
    \/ overlay.isVisible # showReconnectingOverlay

TimerDue ==
    overlay.autoDismissTimer = 0 \/ overlay.dismissTimer = 0 \/ overlay.fadeTimer

\* a timer callback, an input event or a notification of apiClient runs: every
\* update has been committed
OverlayTask == BrowserTask /\ ~OverlayNeedsRender

\* mutant: App's auto-dismiss effect runs after the first render only
OverlayCommit_EffectOnMountOnly ==
    /\ Mounted
    /\ OverlayNeedsRender
    /\ LET isVisible == showReconnectingOverlay
           visibleChanged == ~overlay.mounted \/ isVisible # overlay.isVisible
           depsChanged == ~overlay.mounted
           showOverlay == CombinedSignal
       IN  overlay' = [overlay EXCEPT
                !.mounted = TRUE,
                !.isVisible = isVisible,
                !.deps = overlayDeps,
                !.shouldRender = IF visibleChanged /\ isVisible THEN TRUE ELSE @,
                !.canDismiss = IF visibleChanged THEN FALSE ELSE @,
                !.dismissTimer = IF visibleChanged
                                 THEN (IF isVisible THEN CanDismissDelay ELSE Off) ELSE @,
                !.fadeTimer = IF visibleChanged THEN ~isVisible ELSE @,
                !.overlayDismissed = IF depsChanged THEN FALSE ELSE @,
                !.autoDismissTimer = IF depsChanged
                                     THEN (IF showOverlay THEN AutoDismissDelay ELSE Off) ELSE @,
                !.visibleFor = IF isVisible /\ ~visibleChanged THEN @ ELSE 0,
                !.signalFor = IF showOverlay THEN @ ELSE 0,
                !.hiddenSince = IF showOverlay THEN (@ \/ ~isVisible) ELSE FALSE,
                !.reentered = IF ~showOverlay THEN FALSE
                              ELSE IF overlay.mounted /\ ~(overlay.deps.isRefreshing \/ overlay.deps.apiClientRefreshing)
                              THEN TRUE ELSE @]
    /\ lastOp' = Op("overlayCommit", IF showReconnectingOverlay THEN "visible" ELSE "hidden")
    /\ UNCHANGED << storage, auth, isAuthReady, hydrationCompleted, isRefreshing, loginError,
                    rendered, authEffectDue, hash, currentView, hashChangePending, screen,
                    refreshTasks, readBack, apiLogin, backend, ledger >>

\* the overlay part of a React commit: ReconnectingOverlay is rendered with
\* isVisible = showReconnectingOverlay; its effect on [isVisible] and then
\* App's effect on [isRefreshing, apiClientRefreshing] run if their
\* dependencies changed (both run after the first render)
OverlayCommit ==
    /\ Mounted
    /\ OverlayNeedsRender
    /\ LET isVisible == showReconnectingOverlay
           visibleChanged == ~overlay.mounted \/ isVisible # overlay.isVisible
           depsChanged == ~overlay.mounted \/ overlayDeps # overlay.deps
           showOverlay == CombinedSignal
       IN  overlay' = [overlay EXCEPT
                !.mounted = TRUE,
                !.isVisible = isVisible,
                !.deps = overlayDeps,
                !.shouldRender = IF visibleChanged /\ isVisible THEN TRUE ELSE @,
                !.canDismiss = IF visibleChanged THEN FALSE ELSE @,
                !.dismissTimer = IF visibleChanged
                                 THEN (IF isVisible THEN CanDismissDelay ELSE Off) ELSE @,
                !.fadeTimer = IF visibleChanged THEN ~isVisible ELSE @,
                !.overlayDismissed = IF depsChanged THEN FALSE ELSE @,
                !.autoDismissTimer = IF depsChanged
                                     THEN (IF showOverlay THEN AutoDismissDelay ELSE Off) ELSE @,
                !.visibleFor = IF isVisible /\ ~visibleChanged THEN @ ELSE 0,
                !.signalFor = IF showOverlay THEN @ ELSE 0,
                !.hiddenSince = IF showOverlay THEN (@ \/ ~isVisible) ELSE FALSE,
                !.reentered = IF ~showOverlay THEN FALSE
                              ELSE IF overlay.mounted /\ ~(overlay.deps.isRefreshing \/ overlay.deps.apiClientRefreshing)
                              THEN TRUE ELSE @]
    /\ lastOp' = Op("overlayCommit", IF showReconnectingOverlay THEN "visible" ELSE "hidden")
    /\ UNCHANGED << storage, auth, isAuthReady, hydrationCompleted, isRefreshing, loginError,
                    rendered, authEffectDue, hash, currentView, hashChangePending, screen,
                    refreshTasks, readBack, apiLogin, backend, ledger >>

\* apiClient's setRefreshState notifies the listener App subscribed
setRefreshState(refreshing) ==
    /\ OverlayTask
    /\ ~TimerDue
    /\ overlay' = [overlay EXCEPT
            !.apiClientRefreshing = refreshing,
            !.overlayDismissed = IF refreshing THEN FALSE ELSE @]
    /\ lastOp' = Op("setRefreshState", IF refreshing THEN "true" ELSE "false")
    /\ UNCHANGED << storage, auth, isAuthReady, hydrationCompleted, isRefreshing, loginError,
                    rendered, authEffectDue, hash, currentView, hashChangePending, screen,
                    refreshTasks, readBack, apiLogin, backend, ledger >>

\* the 10 s timer of App's effect fires
autoDismissFires ==
    /\ OverlayTask
    /\ overlay.autoDismissTimer = 0
    /\ overlay' = [overlay EXCEPT !.overlayDismissed = TRUE, !.autoDismissTimer = Off,
                                   !.dismissedOnce = TRUE]
    /\ lastOp' = Op("autoDismiss", "ok")
    /\ UNCHANGED << storage, auth, isAuthReady, hydrationCompleted, isRefreshing, loginError,
                    rendered, authEffectDue, hash, currentView, hashChangePending, screen,
                    refreshTasks, readBack, apiLogin, backend, ledger >>

\* the 3 s timer of ReconnectingOverlay fires
canDismissFires ==
    /\ OverlayTask
    /\ overlay.dismissTimer = 0
    /\ overlay' = [overlay EXCEPT !.canDismiss = TRUE, !.dismissTimer = Off]
    /\ lastOp' = Op("canDismiss", "ok")
    /\ UNCHANGED << storage, auth, isAuthReady, hydrationCompleted, isRefreshing, loginError,
                    rendered, authEffectDue, hash, currentView, hashChangePending, screen,
                    refreshTasks, readBack, apiLogin, backend, ledger >>

\* the 300 ms timer of the fade-out fires
fadeOutFires ==
    /\ OverlayTask
    /\ overlay.fadeTimer
    /\ overlay' = [overlay EXCEPT !.shouldRender = FALSE, !.fadeTimer = FALSE]
    /\ lastOp' = Op("fadeOut", "ok")
    /\ UNCHANGED << storage, auth, isAuthReady, hydrationCompleted, isRefreshing, loginError,
                    rendered, authEffectDue, hash, currentView, hashChangePending, screen,
                    refreshTasks, readBack, apiLogin, backend, ledger >>

\* mutant: the click is passed on whether or not canDismiss is set
handleDismiss_Always ==
    /\ OverlayTask
    /\ ~TimerDue
    /\ overlay.shouldRender /\ overlay.isVisible
    /\ overlay' = [overlay EXCEPT !.overlayDismissed = TRUE, !.dismissedOnce = TRUE]
    /\ lastOp' = Op("dismiss", "dismissed")
    /\ UNCHANGED << storage, auth, isAuthReady, hydrationCompleted, isRefreshing, loginError,
                    rendered, authEffectDue, hash, currentView, hashChangePending, screen,
                    refreshTasks, readBack, apiLogin, backend, ledger >>

\* the user clicks the overlay or its button (it takes clicks while isVisible):
\* handleDismiss, and through onDismiss App's handleOverlayDismiss; a click
\* made at the instant a timer is due comes after the timer
handleDismiss ==
    /\ OverlayTask
    /\ ~TimerDue
    /\ overlay.shouldRender /\ overlay.isVisible
    /\ IF overlay.canDismiss
       THEN /\ overlay' = [overlay EXCEPT !.overlayDismissed = TRUE, !.dismissedOnce = TRUE]
            /\ lastOp' = Op("dismiss", "dismissed")
       ELSE /\ overlay' = overlay
            /\ lastOp' = Op("dismiss", "ignored")
    /\ UNCHANGED << storage, auth, isAuthReady, hydrationCompleted, isRefreshing, loginError,
                    rendered, authEffectDue, hash, currentView, hashChangePending, screen,
                    refreshTasks, readBack, apiLogin, backend, ledger >>

\* one second passes; the 800 ms timer of a rebuild has fired by then
Tick ==
    /\ OverlayTask
    /\ ~TimerDue
    /\ refreshTasks = << >>
    /\ overlay' = [overlay EXCEPT
            !.autoDismissTimer = IF @ > 0 THEN @ - 1 ELSE @,
            !.dismissTimer = IF @ > 0 THEN @ - 1 ELSE @,
            !.signalFor = IF ~CombinedSignal THEN 0 ELSE IF @ < SignalClockMax THEN @ + 1 ELSE @,
            !.visibleFor = IF ~overlay.isVisible THEN 0 ELSE IF @ < VisibleClockMax THEN @ + 1 ELSE @,
            !.hiddenSince = @ \/ (CombinedSignal /\ ~overlay.isVisible)]
    /\ lastOp' = Op("tick", "ok")
    /\ UNCHANGED << storage, auth, isAuthReady, hydrationCompleted, isRefreshing, loginError,
                    rendered, authEffectDue, hash, currentView, hashChangePending, screen,
                    refreshTasks, readBack, apiLogin, backend, ledger >>

OverlayInit ==
    /\ FreshPage([k \in Keys |->
                    IF k = STORAGE_KEY
                    THEN JSONstringify(storageData(AuthState(W("970251"), W("manager"), W("970251"), W("Jayson James"))))
                    ELSE Absent], "")
    /\ readBack = [writer |-> NoAuth, read |-> "none"]
    /\ backend = << >>
    /\ ledger = LedgerFresh

\* the two signals are driven by refreshSession and by apiClient; the rebuild
\* of refreshSession ends when the commit of its start is complete
OverlayNext ==
    \/ Hydrate(FALSE)
    \/ Render
    \/ OverlayCommit
    \/ refreshSession
    \/ ~OverlayNeedsRender /\ refreshComplete
    \/ \E refreshing \in BOOLEAN : setRefreshState(refreshing)
    \/ autoDismissFires
    \/ canDismissFires
    \/ fadeOutFires
    \/ handleDismiss
    \/ Tick

OverlaySpec == OverlayInit /\ [][OverlayNext]_vars

-----------------------------------------------------------------------------
(* The write path: a signed-in or signed-out page, with or without the      *)
(* records of an earlier version, whose screens run the gate and the        *)
(* mutations; an exception may be raised inside the gate.                   *)

GateInit ==
    /\ \E item \in {Absent, JSONstringify(storageData(AuthState(W("970251"), W("manager"), W("970251"), W("Jayson James"))))},
          legacy \in InitialLegacy \cup {LegacyCurrentUser} :
          FreshPage([k \in Keys |-> IF k = STORAGE_KEY THEN item ELSE legacy[k]], "")
    /\ readBack = [writer |-> NoAuth, read |-> "none"]
    /\ backend = << >>
    /\ ledger = LedgerFresh

GateNext ==
    \/ Hydrate(FALSE)
    \/ login([username |-> << >>, password |-> << >>, badge |-> W("970251")])
    \/ logout
    \/ \E operatorId \in OperatorIds, thrown \in ThrownErrors \cup {NoError} :
          EnsureUserContext(operatorId, thrown)
    \/ \E call \in BackendCalls, operator \in {<< >>, W("970251")}, actor \in BOOLEAN,
          thrown \in {NoError, Thrown(<< "403" >>, << "Error: ", "403" >>),
                      Thrown(<< "network timeout" >>, << "Error: ", "network timeout" >>)} :
          mutationFn(call, operator, actor, thrown)
    \/ handleAuthError
    \/ Render

GateSpec == GateInit /\ [][GateNext]_vars

-----------------------------------------------------------------------------
(* userRoster: the lookups, called with any identifier.  An identifier is a *)
(* sequence of symbols: blanks, and words in one or another letter case.    *)

MaxIdentifierLen == 3

IdentifierSymbols == {" ", "DEMO001", "demo001", "970251", "OPERATOR@DEMO.COM"}

RECURSIVE SeqsUpTo(_, _)
SeqsUpTo(symbols, n) ==
    IF n = 0 THEN {<< >>}
    ELSE LET shorter == SeqsUpTo(symbols, n - 1)
         IN  shorter \cup {Append(s, c) : s \in {t \in shorter : Len(t) = n - 1}, c \in symbols}

Identifiers == SeqsUpTo(IdentifierSymbols, MaxIdentifierLen)

Passwords == {W("test123"), W("wrong")}

RosterResult(fn, input, password, user) ==
    [op |-> fn, input |-> input, password |-> password, outcome |-> user]

RosterFrame ==
    UNCHANGED << storage, auth, isAuthReady, hydrationCompleted, isRefreshing, loginError,
                 rendered, authEffectDue, hash, currentView, hashChangePending, screen,
                 refreshTasks, readBack, apiLogin, backend, overlay, ledger >>

LookupUserByBadge(badgeId) ==
    /\ lastOp' = RosterResult("lookupUserByBadge", badgeId, << >>, lookupUserByBadge(badgeId))
    /\ RosterFrame

LookupUserByEmail(email) ==
    /\ lastOp' = RosterResult("lookupUserByEmail", email, << >>, lookupUserByEmail(email))
    /\ RosterFrame

ValidateCredentials(email, password) ==
    /\ lastOp' = RosterResult("validateCredentials", email, password, validateCredentials(email, password))
    /\ RosterFrame

ValidateBadgeScan(badgeId) ==
    /\ lastOp' = RosterResult("validateBadgeScan", badgeId, << >>, validateBadgeScan(badgeId))
    /\ RosterFrame

RosterInit ==
    /\ FreshPage([k \in Keys |-> Absent], "")
    /\ readBack = [writer |-> NoAuth, read |-> "none"]
    /\ backend = << >>
    /\ ledger = LedgerFresh

RosterNext ==
    \/ \E badgeId \in Identifiers : LookupUserByBadge(badgeId)
    \/ \E email \in Identifiers : LookupUserByEmail(email)
    \/ \E email \in Identifiers, password \in Passwords : ValidateCredentials(email, password)
    \/ \E badgeId \in Identifiers : ValidateBadgeScan(badgeId)

RosterSpec == RosterInit /\ [][RosterNext]_vars

-----------------------------------------------------------------------------
(* Session refresh: a page opened on a stored session, on none or on a      *)
(* record that cannot be used; the user signs in and out while refreshes    *)
(* run.  React commits every update and a timer that is due fires.          *)

RefreshSessionItems ==
    { Absent,
      Text(W("{bad")),
      JSONstringify(storageData(AuthState(W("970251"), W("manager"), W("970251"), W("Jayson James")))),
      JSONstringify([username |-> undefined, roles |-> NotArray, displayName |-> W("x"), badgeId |-> undefined]),
      JSONstringify([username |-> W("u1"), roles |-> Array(<< W("superuser") >>),
                     displayName |-> W("User One"), badgeId |-> undefined]),
      JSONstringify([username |-> W("u1"), roles |-> Array(<< >>),
                     displayName |-> W("User One"), badgeId |-> undefined]) }

RefreshInit ==
    /\ \E item \in RefreshSessionItems, h \in {"", "agentMenu"} :
          FreshPage([k \in Keys |-> IF k = STORAGE_KEY THEN item ELSE Absent], h)
    /\ readBack = [writer |-> NoAuth, read |-> "none"]
    /\ backend = << >>
    /\ ledger = LedgerFresh

RefreshNext ==
    \/ Hydrate(FALSE)
    \/ login([username |-> W("operator@demo.com"), password |-> W("test123"), badge |-> undefined])
    \/ \E authData \in SetAuthInputs : setAuth(authData)
    \/ logout
    \/ refreshSession
    \/ refreshComplete
    \/ Render
    \/ HashChange

RefreshSpec ==
    /\ RefreshInit
    /\ [][RefreshNext]_vars
    /\ WF_vars(Hydrate(FALSE))
    /\ WF_vars(Render)
    /\ SF_vars(refreshComplete)

-----------------------------------------------------------------------------
(* CheckOutScreen and CheckInScreen: handleCheckOut and handleCheckIn.  A   *)
(* handler runs, without suspension, from the click to the backend call of  *)
(* its first mutation (the awaited gate has no suspension point); it is     *)
(* suspended while a backend call is in flight.                             *)

\* handlers that pass the gate
MaxFlows == 1

\* the mutations a handler awaits, in order
FlowCalls == << "createAssignment", "updateEquipment", "logActivity" >>

\* operator_id, assigned_operator and user_id of the payloads: check-in
\* passes assigned_operator: undefined
flowOperator(kind, k, operatorId) ==
    IF kind = "check_in" /\ FlowCalls[k] = "updateEquipment" THEN undefined ELSE operatorId

\* errors the environment may raise inside a gate
FlowErrors == {NoError, Thrown(<< "403" >>, << "Error: ", "403" >>)}

\* updateEquipmentStatus: the status, the last operator of a check-out and
\* one more history entry; an unknown id changes nothing
updateEquipmentStatus(registry, id, status, operator) ==
    IF id \notin DOMAIN registry THEN registry
    ELSE [registry EXCEPT ![id] =
            [status       |-> status,
             lastOperator |-> IF status = "ASSIGNED" THEN operator ELSE @.lastOperator,
             history      |-> Append(@.history, IF status = "ASSIGNED" THEN "CHECKOUT" ELSE "RETURN")]]

\* mutant: the result of the gate is not looked at
sessionValid_Ignored(gate) == TRUE

\* if (!sessionValid) return
sessionValid(gate) == gate = "true"

\* mutationFn of the k-th mutation of a handler gets as far as the backend call
flowIssues(kind, k, operatorId, actor, thrown) ==
    mutationIssues(actor,
        ensureUserContextResult(storage, gateArgument(FlowCalls[k], flowOperator(kind, k, operatorId)), thrown) = "true")

\* the handler from the click to its first backend call: the guard on auth,
\* the gate, the three local writes, and mutationFn of createAssignment
handleFlow(kind, equipmentId, thrown, actor, mutationThrown) ==
    /\ BrowserTask
    /\ IF auth = NoAuth \/ ~Truthy(auth.badgeId)
       THEN /\ lastOp' = [op |-> kind, equipmentId |-> equipmentId, gate |-> "not run",
                          outcome |-> "session not ready"]
            /\ UNCHANGED << ledger, backend >>
       ELSE LET operatorId == Or(auth.badgeId, auth.user)
                gate == ensureUserContextResult(storage, operatorId, thrown)
                issued == flowIssues(kind, 1, operatorId, actor, mutationThrown)
            IN  IF ~sessionValid(gate)
                THEN /\ lastOp' = [op |-> kind, equipmentId |-> equipmentId, gate |-> gate,
                                   outcome |-> "rejected"]
                     /\ UNCHANGED << ledger, backend >>
                ELSE /\ Len(ledger.auditLog) < MaxFlows
                     /\ ledger' =
                          [registry     |-> updateEquipmentStatus(ledger.registry, equipmentId,
                                                IF kind = "check_out" THEN "ASSIGNED" ELSE "AVAILABLE",
                                                operatorId),
                           eventHistory |-> Append(ledger.eventHistory,
                                                IF kind = "check_out" THEN "CHECK_OUT" ELSE "CHECK_IN"),
                           auditLog     |-> << IF kind = "check_out" THEN "checkout" ELSE "checkin" >>
                                                \o ledger.auditLog,
                           flows        |-> IF issued
                                            THEN Append(ledger.flows,
                                                    [kind |-> kind, operatorId |-> operatorId, awaits |-> 1])
                                            ELSE ledger.flows]
                     /\ backend' = IF issued THEN Append(backend, FlowCalls[1]) ELSE backend
                     /\ lastOp' = [op |-> kind, equipmentId |-> equipmentId, gate |-> gate,
                                   outcome |-> IF issued THEN "recorded" ELSE "recorded, mutation failed"]
    /\ UNCHANGED << storage, auth, isAuthReady, hydrationCompleted, isRefreshing, loginError,
                    rendered, authEffectDue, hash, currentView, hashChangePending, screen,
                    refreshTasks, readBack, apiLogin, overlay >>

\* the button of CheckOutScreen
handleCheckOut(equipmentId, thrown, actor, mutationThrown) ==
    /\ screen = "takeEquipment"
    /\ handleFlow("check_out", equipmentId, thrown, actor, mutationThrown)

\* the button of CheckInScreen
handleCheckIn(equipmentId, thrown, actor, mutationThrown) ==
    /\ screen = "returnEquipment"
    /\ handleFlow("check_in", equipmentId, thrown, actor, mutationThrown)

Remove(seq, i) == SubSeq(seq, 1, i - 1) \o SubSeq(seq, i + 1, Len(seq))

\* the backend call the i-th suspended handler awaits settles: an error ends
\* the handler in its catch block; otherwise the handler goes on to the next
\* mutation, whose mutationFn runs its own gate, or ends after the last one
mutationSettles(i, response, actor, thrown) ==
    /\ Mounted
    /\ i \in 1..Len(ledger.flows)
    /\ LET flow == ledger.flows[i]
           k == flow.awaits + 1
           last == flow.awaits = Len(FlowCalls)
           issued == response = "ok" /\ ~last /\ flowIssues(flow.kind, k, flow.operatorId, actor, thrown)
       IN  /\ ledger' = [ledger EXCEPT !.flows =
                            IF issued THEN [@ EXCEPT ![i].awaits = k] ELSE Remove(@, i)]
           /\ backend' = IF issued THEN Append(backend, FlowCalls[k]) ELSE backend
           /\ lastOp' = [op |-> "mutationSettles", call |-> FlowCalls[flow.awaits], response |-> response,
                         outcome |-> IF response # "ok" THEN "failed"
                                     ELSE IF last THEN "done"
                                     ELSE IF issued THEN "next issued" ELSE "next rejected"]
    /\ UNCHANGED << storage, auth, isAuthReady, hydrationCompleted, isRefreshing, loginError,
                    rendered, authEffectDue, hash, currentView, hashChangePending, screen,
                    refreshTasks, readBack, apiLogin, overlay >>

\* a page with a stored session, with or without the records of an earlier
\* version, opened on the check-out screen
FlowInit ==
    /\ \E legacy \in InitialLegacy :
          FreshPage([k \in Keys |->
                        IF k = STORAGE_KEY
                        THEN JSONstringify(storageData(AuthState(W("970251"), W("manager"), W("970251"), W("Jayson James"))))
                        ELSE legacy[k]], "takeEquipment")
    /\ readBack = [writer |-> NoAuth, read |-> "none"]
    /\ backend = << >>
    /\ ledger = LedgerFresh

FlowNext ==
    \/ Hydrate(FALSE)
    \/ login([username |-> << >>, password |-> << >>, badge |-> W("970251")])
    \/ setAuth(AuthState(W("u1"), W("agent"), null, << >>))
    \/ logout
    \/ handleAuthError
    \/ Render
    \/ HashChange
    \/ \E fragment \in {"takeEquipment", "returnEquipment"} : SetHash(fragment)
    \/ \E equipmentId \in EquipmentIds, thrown \in FlowErrors, actor \in BOOLEAN :
          handleCheckOut(equipmentId, thrown, actor, NoError)
    \/ \E equipmentId \in EquipmentIds, thrown \in FlowErrors, actor \in BOOLEAN :
          handleCheckIn(equipmentId, thrown, actor, NoError)
    \/ \E i \in 1..MaxFlows, response \in {"ok", "error"}, actor \in BOOLEAN, thrown \in FlowErrors :
          mutationSettles(i, response, actor, thrown)

FlowSpec == FlowInit /\ [][FlowNext]_vars

-----------------------------------------------------------------------------
(* Sign-in with a badge: SignInScreen and LoginScreen call login with a     *)
(* badge, whatever the user typed as user name and password.                *)

\* badges as scanned or typed: roster badges, with blanks around them, in
\* another letter case, and strings that are no badge
BadgeInputs ==
    { W("970251"), << " ", "970251", " " >>, W("DEMO001"), << "DEMO001", " " >>, W("demo001"),
      W(" "), W("000000"), << "970251", "970251" >> }

BadgeCredentials ==
    [username : {<< >>, W("operator@demo.com")},
     password : {<< >>, W("test123"), W("wrong")},
     badge    : BadgeInputs]

SignInInit ==
    /\ FreshPage([k \in Keys |-> Absent], "")
    /\ readBack = [writer |-> NoAuth, read |-> "none"]
    /\ backend = << >>
    /\ ledger = LedgerFresh

SignInNext ==
    \/ Hydrate(FALSE)
    \/ \E credentials \in BadgeCredentials : login(credentials)
    \/ logout
    \/ Render
    \/ HashChange

SignInSpec == SignInInit /\ [][SignInNext]_vars

-----------------------------------------------------------------------------
(* Properties *)

\* the canonical key holds a record from which a session can be built
HoldsSession(item) == ValidStored(JSONparse(item))

\* the stored record names the session's subject or badge
SameIdentity(session, item) ==
    JSONparse(item).value.username \in {session.user, session.badgeId}

\* nothing is waiting to be committed and no hashchange event is queued
Quiescent == Mounted /\ ~NeedsRender /\ ~hashChangePending

InvalidFragment(h) == h = "" \/ h \notin validViews

\* C1: whenever the state machine holds a session, ensureUserContext returns
\* true for every expectedSubjectId
C1_GateOpenWithSession ==
    (Mounted /\ auth # NoAuth) =>
        \A operatorId \in OperatorIds : ensureUserContext(storage, operatorId)

\* C2: a refreshSession issued while another has not resolved is rejected, so
\* at most one rebuild is ever in flight
C2_AtMostOneRefresh == Len(refreshTasks) <= 1

\* C3: after every completed auth operation the in-memory session is present
\* iff the canonical key holds a session record, and both describe the same identity
C3_MemoryMatchesStore ==
    Mounted =>
        /\ (auth # NoAuth) <=> HoldsSession(storage[STORAGE_KEY])
        /\ auth # NoAuth => SameIdentity(auth, storage[STORAGE_KEY])

\* the badge (trimmed) is a roster badge, or the identifier names an entry
\* whose configured password equals the one supplied
ValidLogin(credentials) ==
    IF Truthy(credentials.badge)
    THEN \E i \in 1..Len(USER_ROSTER) : USER_ROSTER[i].badgeId = Trim(credentials.badge)
    ELSE \E i \in 1..Len(USER_ROSTER) :
            /\ toLowerCase(Trim(credentials.username)) \in
                  {toLowerCase(USER_ROSTER[i].email), toLowerCase(USER_ROSTER[i].badgeId)}
            /\ Truthy(USER_ROSTER[i].password)
            /\ USER_ROSTER[i].password = credentials.password

\* C4: a login with an unknown badge or invalid credentials rejects, leaves
\* the in-memory session and the stored record as they were, and records a
\* non-empty loginError
C4_LoginFailureNonDestructive ==
    [][(lastOp'.op = "login" /\ ~ValidLogin(lastOp'.credentials)) =>
          /\ lastOp'.outcome = "rejected"
          /\ auth' = auth
          /\ storage' = storage
          /\ Truthy(loginError')]_vars

\* a failed login happened while a session was held
C4_Witness ==
    /\ lastOp.op = "login" /\ lastOp.outcome = "rejected"
    /\ auth # NoAuth /\ HoldsSession(storage[STORAGE_KEY])
    /\ Truthy(loginError)

\* C5 as claimed: logout leaves no session and no canonical key, and a logout
\* repeated, or made with no session, leaves the whole auth state unchanged
C5_LogoutIdempotentAsClaimed ==
    [][lastOp'.op = "logout" =>
          /\ auth' = NoAuth
          /\ storage'[STORAGE_KEY] = Absent
          /\ (lastOp.op = "logout" \/ auth = NoAuth) => authVars' = authVars]_vars

\* C5 amended: logout leaves no session, no canonical key and no loginError,
\* touches nothing else, and a logout repeated right after a logout changes
\* nothing; a logout made with no session may still clear loginError and a
\* non-session value left under the canonical key
C5_LogoutIdempotent ==
    [][lastOp'.op = "logout" =>
          /\ auth' = NoAuth
          /\ storage' = [storage EXCEPT ![STORAGE_KEY] = Absent]
          /\ loginError' = null
          /\ UNCHANGED << isAuthReady, hydrationCompleted, isRefreshing >>
          /\ lastOp.op = "logout" => authVars' = authVars]_vars

\* a logout has ended a session
C5_Witness ==
    /\ lastOp = Op("logout", "signed out")
    /\ auth = NoAuth /\ storage[STORAGE_KEY] = Absent

\* C6: a session persisted by login or setAuth and read back by hydration or
\* refreshSession is equal in every field to the one written
C6_RoundTripLossless == readBack.read # "differs"

\* C7: after handleAuthError every local session key, canonical and legacy,
\* is absent
C7_AllKeysCleared ==
    lastOp.op = "handleAuthError" => \A k \in Keys : storage[k] = Absent

\* C8 as claimed: with a session, an empty or invalid fragment is always
\* rewritten to roleSelection, also after a later fragment change; once the
\* router has settled no such fragment is left
C8_InvalidFragmentRewrittenAsClaimed ==
    (Quiescent /\ auth # NoAuth /\ InvalidFragment(hash)) =>
        (screen = "roleSelection" /\ hash = "roleSelection")

\* C8 amended: with a session and an empty or invalid fragment the screen
\* shown is roleSelection; the fragment is rewritten to roleSelection by the
\* effect that runs when the session appears or is replaced, and a later
\* fragment change is left as it is
C8_InvalidFragmentDefaults ==
    /\ [](Quiescent /\ auth # NoAuth /\ InvalidFragment(hash) => screen = "roleSelection")
    /\ [][(lastOp'.op = "render" /\ authEffectDue /\ auth # NoAuth /\ InvalidFragment(hash))
             => hash' = "roleSelection"]_vars
    /\ [][lastOp'.op = "hashchange" => hash' = hash]_vars

\* a session is shown roleSelection under a fragment that is not a screen
C8_Witness ==
    /\ Quiescent /\ auth # NoAuth
    /\ hash = "bogus" /\ screen = "roleSelection"

\* C9: with a session and a valid fragment the screen shown is the fragment,
\* and no step but a navigation changes the fragment
C9_ValidFragmentHonoured ==
    /\ [](Quiescent /\ auth # NoAuth /\ hash \in validViews => screen = hash)
    /\ [][(auth' # NoAuth /\ hash \in validViews /\ lastOp'.op # "navigate") => hash' = hash]_vars

\* the commit that follows the arrival or replacement of a session keeps a deep link
C9_Witness ==
    /\ Quiescent /\ auth # NoAuth /\ lastOp.op = "render"
    /\ hash = "agentMenu" /\ screen = "agentMenu"

\* C10: without a session the screen shown is the login screen whatever the
\* fragment, and no step but a navigation changes the fragment
C10_LoginScreenWithoutSession ==
    /\ [](~NeedsRender /\ auth = NoAuth => screen = "login")
    /\ [][(auth' = NoAuth /\ lastOp'.op # "navigate") => hash' = hash]_vars

\* a signed-out page under a signed-in fragment shows the login screen
C10_Witness ==
    /\ Mounted /\ ~NeedsRender /\ auth = NoAuth
    /\ lastOp.op = "render" /\ hash = "agentMenu" /\ screen = "login"

\* C11: a login that succeeds while the login screen is shown leads to a
\* signed-in screen: roleSelection if the fragment at that moment was empty
\* or invalid, else the screen the fragment names
C11_LoginLeadsToSignedIn ==
    \A f \in Fragments :
        (lastOp.op = "login" /\ lastOp.outcome = "resolved" /\ screen = "login" /\ hash = f)
            ~> (screen = IF InvalidFragment(f) THEN "roleSelection" ELSE f)

\* the session of a login made on an empty store is shown roleSelection
C11_Witness ==
    /\ ~NeedsRender /\ lastOp.op = "render"
    /\ auth # NoAuth /\ readBack.writer = auth /\ readBack.read = "none"
    /\ screen = "roleSelection" /\ hash = "roleSelection"

\* C12: a login that passes validation has, when it resolves, set the
\* session, written the record and left the /api/login request in flight;
\* whatever way that request settles, session, stored record, loginError and
\* the readiness flags stay as they are
C12_RequestIsAdvisory ==
    /\ [][(lastOp'.op = "login" /\ ValidLogin(lastOp'.credentials)) =>
             /\ lastOp'.outcome = "resolved"
             /\ auth' # NoAuth
             /\ storage'[STORAGE_KEY] = JSONstringify(storageData(auth'))
             /\ loginError' = null
             /\ apiLogin' = "pending"]_vars
    /\ [][lastOp'.op = "apiLogin" => authVars' = authVars]_vars

\* a request was aborted by its timer and the session is still there
C12_Witness ==
    /\ lastOp = Op("apiLogin", "aborted")
    /\ auth # NoAuth /\ readBack.writer = auth
    /\ storage[STORAGE_KEY] = JSONstringify(storageData(auth))
    /\ loginError = null

\* C13: whatever the canonical key holds, and also when reading it raises,
\* hydrationCompleted and then isAuthReady become true and stay true
C13_ReadinessReached ==
    /\ <>[](hydrationCompleted /\ isAuthReady)
    /\ [](isAuthReady => hydrationCompleted)

\* ready without a session although the store holds one: the read had raised
C13_Witness ==
    /\ hydrationCompleted /\ isAuthReady /\ lastOp.op = "render"
    /\ auth = NoAuth /\ HoldsSession(storage[STORAGE_KEY])

C15_GateClosedWithoutSession ==
    (Mounted /\ auth = NoAuth) =>
        \A operatorId \in OperatorIds : ~ensureUserContext(storage, operatorId)

\* the message carries one of the four marks of an authentication failure
HasAuthFailureMark(error) ==
    LET message == IF Truthy(error.message) THEN error.message ELSE error.asString
    IN  \E i \in 1..Len(message) :
           message[i] \in {"401", "403", "Invalid delegation", "Session expired"}

C17_MutationsGated ==
    [][backend' # backend =>
          /\ lastOp'.op = "mutation" /\ lastOp'.outcome = "issued"
          /\ backend' = Append(backend, lastOp'.call)
          /\ ensureUserContextResult(storage, lastOp'.operatorId, lastOp'.thrown) = "true"]_vars

\* a mutation was stopped by the gate, another one went through
C17_Witness ==
    /\ lastOp.op = "mutation" /\ lastOp.outcome = "rejected"
    /\ Len(backend) = 1

C19_DismissAfterThreeSeconds ==
    [][lastOp'.op = "dismiss" =>
          IF overlay.visibleFor < CanDismissDelay
          THEN lastOp'.outcome = "ignored" /\ overlay' = overlay
          ELSE lastOp'.outcome = "dismissed" /\ ~showReconnectingOverlay']_vars

\* a click after three seconds has hidden the overlay while the signal is on
C19_Witness ==
    /\ lastOp = Op("overlayCommit", "hidden")
    /\ overlay.overlayDismissed /\ ~overlay.isVisible /\ CombinedSignal
    /\ overlay.autoDismissTimer > 0

\* the first non-empty value among displayName, badgeId, subject and 'Signed out'
FirstNonEmptyName(displayName, badgeId, subject) ==
    IF Truthy(displayName) THEN displayName
    ELSE IF Truthy(badgeId) THEN badgeId
    ELSE IF Truthy(subject) THEN subject
    ELSE W("Signed out")

\* C20: the session built by hydration from the stored record, and the one
\* built by login from the roster entry, has a non-empty name, which is the
\* first non-empty value among the record's displayName, its badgeId, its
\* subject and 'Signed out'
C20_DisplayNameFallback ==
    /\ [][(lastOp'.op = "hydrate" /\ lastOp'.outcome = "session") =>
             LET storedData == JSONparse(storage[STORAGE_KEY]).value
             IN  /\ Truthy(auth'.name)
                 /\ auth'.name = FirstNonEmptyName(storedData.displayName, storedData.badgeId,
                                                   storedData.username)]_vars
    /\ [][(lastOp'.op = "login" /\ lastOp'.outcome = "resolved") =>
             \E i \in 1..Len(USER_ROSTER) :
                /\ Truthy(auth'.name)
                /\ auth'.name = FirstNonEmptyName(USER_ROSTER[i].displayName, auth'.badgeId, auth'.user)]_vars

RosterFns == {"lookupUserByBadge", "lookupUserByEmail", "validateCredentials", "validateBadgeScan"}

\* the lookup fn applied to another identifier
RosterCall(fn, input, password) ==
    CASE fn = "lookupUserByBadge"   -> lookupUserByBadge(input)
      [] fn = "lookupUserByEmail"   -> lookupUserByEmail(input)
      [] fn = "validateCredentials" -> validateCredentials(input, password)
      [] OTHER                      -> validateBadgeScan(input)

\* the two identifiers differ only in surrounding blanks or in letter case
SameIdentifier(a, b) == toLowerCase(Trim(a)) = toLowerCase(Trim(b))

\* C21: every roster lookup returns a roster entry or null, and returns the
\* same result for any other identifier that differs from its input only in
\* surrounding whitespace or in letter case.
C21_LookupsNormalised ==
    lastOp.op \in RosterFns =>
        /\ lastOp.outcome \in {NoUser} \cup {USER_ROSTER[i] : i \in 1..Len(USER_ROSTER)}
        /\ \A other \in Identifiers :
              SameIdentifier(other, lastOp.input) =>
                  RosterCall(lastOp.op, other, lastOp.password) = lastOp.outcome

\* C22: clearLoginError() sets loginError to null and leaves the in-memory
\* session, the stored record, the readiness flags and isRefreshing unchanged.
C22_ClearsOnlyLoginError ==
    [][lastOp' = Op("clearLoginError", "ok") =>
          /\ loginError' = null
          /\ UNCHANGED << auth, storage, isAuthReady, hydrationCompleted, isRefreshing >>]_vars

\* clearLoginError has run on a page that holds a session, in memory and in the store
C22_Witness ==
    /\ lastOp = Op("clearLoginError", "ok")
    /\ loginError = null
    /\ auth # NoAuth
    /\ storage[STORAGE_KEY] # Absent

\* C23: after logout() the in-memory session stays absent until the next
\* successful login or setAuth: on a mounted page an absent session becomes a
\* present one only in a step of login or setAuth, also when a refreshSession
\* that began before the logout completes after it.
C23_LogoutHolds ==
    [][(hydrationCompleted /\ auth = NoAuth /\ auth' # NoAuth) =>
          lastOp'.op \in {"login", "setAuth"}]_vars

RefreshOps == {"refreshSession", "refreshComplete"}

\* C24: refreshSession resolves with a result and never throws; whenever it
\* returns false (busy, no stored record, invalid record, rebuild error, or
\* the timeout winning the race) it leaves the in-memory session and the
\* stored record as they were and leaves no rebuild behind that would change
\* them later; it returns true only when the rebuild has replaced the session
\* before the timeout.
C24_FalseChangesNothing ==
    [][lastOp'.op \in RefreshOps =>
          /\ lastOp'.outcome \in {"busy", "false", "pending", "true"}
          /\ lastOp'.outcome \in {"busy", "false"} => UNCHANGED << auth, storage, refreshTasks >>
          /\ lastOp'.outcome = "true" =>
                /\ refreshTasks # << >>
                /\ auth' = Head(refreshTasks)
                /\ RebuildDelay < RefreshTimeout]_vars

\* refreshSession has returned false on a page that holds a session in memory
C24_Witness ==
    /\ lastOp = Op("refreshSession", "false")
    /\ auth # NoAuth

\* C25: isRefreshing never remains true forever, and every refreshSession
\* call that passed the busy check and waits for its rebuild resolves.
C25_RefreshResolves ==
    /\ isRefreshing ~> ~isRefreshing
    /\ (lastOp = Op("refreshSession", "pending")) ~> (lastOp.op = "refreshComplete")

\* a call has resolved and isRefreshing is false again
C25_Witness ==
    /\ lastOp.op = "refreshComplete"
    /\ ~isRefreshing
    /\ refreshTasks = << >>

\* C26: ensureUserContext never modifies the in-memory session or any storage
\* key, whatever it returns and whatever error is raised inside it.
C26_GateReadsOnly ==
    [][lastOp'.op = "ensureUserContext" => UNCHANGED << auth, storage >>]_vars

\* the gate has caught a network error on a page that holds a session, in
\* memory and in the store, and has returned true
C26_Witness ==
    /\ lastOp.op = "ensureUserContext"
    /\ lastOp.thrown = Thrown(<< "network timeout" >>, << "Error: ", "network timeout" >>)
    /\ lastOp.outcome = "true"
    /\ auth # NoAuth
    /\ storage[STORAGE_KEY] # Absent

\* the roles of the application
Roles == {W("admin"), W("manager"), W("agent"), W("operator"), W("guest")}

\* C27: every session held in memory, whatever the stored record it was built
\* from and whichever path built it, has a role in the closed set
\* {admin, manager, agent, operator, guest}.
C27_RoleInClosedSet == auth # NoAuth => auth.role \in Roles

\* the combined signal as of the last commit
CommittedSignal == overlay.deps.isRefreshing \/ overlay.deps.apiClientRefreshing

\* C28: when the combined signal has gone false and is true again, the commit
\* of the change makes the overlay visible, also when it had been dismissed,
\* and arms both the 3-second timer and the 10-second timer anew.
C28_ReentryRestarts ==
    [][(lastOp'.op = "overlayCommit" /\ overlay.mounted /\ ~CommittedSignal /\ CombinedSignal) =>
          /\ overlay'.isVisible
          /\ ~overlay'.overlayDismissed
          /\ ~overlay'.canDismiss
          /\ overlay'.dismissTimer = CanDismissDelay
          /\ overlay'.autoDismissTimer = AutoDismissDelay]_vars

\* the signal has gone false and come back after the overlay had been
\* dismissed, and the commit has shown the overlay with both timers armed anew
C28_Witness ==
    /\ lastOp = Op("overlayCommit", "visible")
    /\ overlay.reentered /\ overlay.dismissedOnce
    /\ overlay.isVisible
    /\ overlay.dismissTimer = CanDismissDelay
    /\ overlay.autoDismissTimer = AutoDismissDelay

FlowHandlers == {"check_out", "check_in"}

\* C29: in the check-out and check-in flows the equipment registry, the event
\* history and the audit log change only in a handler step whose gate has
\* returned true, with a session in memory; a handler whose gate has returned
\* false, or that finds no usable session in memory, changes none of them,
\* issues no backend mutation and leaves none to be issued; a backend
\* mutation is issued only by a handler that has passed the gate.
C29_WritesAfterGate ==
    /\ [][(ledger'.registry # ledger.registry \/ ledger'.eventHistory # ledger.eventHistory
             \/ ledger'.auditLog # ledger.auditLog) =>
            /\ lastOp'.op \in FlowHandlers
            /\ lastOp'.gate = "true"
            /\ auth # NoAuth]_vars
    /\ [][(lastOp'.op \in FlowHandlers /\ lastOp'.gate # "true") =>
            UNCHANGED << ledger, backend >>]_vars
    /\ [][backend' # backend =>
            \/ lastOp'.op \in FlowHandlers /\ lastOp'.gate = "true"
            \/ lastOp'.op = "mutationSettles" /\ ledger.flows # << >>]_vars

\* after a check-out that was recorded and sent to the backend, a check-in is
\* rejected by the gate although a session is in memory
C29_Witness ==
    /\ lastOp.op = "check_in" /\ lastOp.gate = "false"
    /\ auth # NoAuth
    /\ ledger.auditLog = << "checkout" >>
    /\ ledger.registry[W("TV0637")].status = "ASSIGNED"
    /\ backend # << >>

RosterBadgeIds == {USER_ROSTER[i].badgeId : i \in 1..Len(USER_ROSTER)}

\* subject, role and displayName of a session
Identity(session) == [subject |-> session.user, role |-> session.role, displayName |-> session.name]

\* what login does with the credentials: its outcome and the session it builds
LoginResult(credentials) ==
    LET user == IF Truthy(credentials.badge) THEN validateBadgeScan(credentials.badge)
                ELSE validateCredentials(credentials.username, credentials.password)
    IN  IF user = NoUser THEN [outcome |-> "rejected"]
        ELSE [outcome |-> "resolved", identity |-> Identity(loginAuthData(user, credentials.badge))]

====
